---------------------------- MODULE Spec2Model ----------------------------
(***************************************************************************)
(* Model of prompt_wrangler: the service and its response-processing       *)
(* pipeline (app/services/openai_service.py), the request models           *)
(* (app/models/input.py), the metrics builder (app/utils/metrics.py) and   *)
(* the extract command (app/main.py).                                      *)
(*                                                                         *)
(* A completion text is a sequence of lexemes.  One lexeme stands for one  *)
(* run of characters of the text: the fence marker (three backticks), the  *)
(* tag json, one whitespace character, one JSON punctuation character, one *)
(* JSON string literal, one number, or one prose word.  The two regular    *)
(* expressions and json.loads are modelled over that sequence.             *)
(***************************************************************************)
EXTENDS Integers, Sequences, FiniteSets, TLC

VARIABLES
    pc,            \* position of the one call in flight
    resp_kind,     \* "text": choices[0].message.content is a str; "mock": a MagicMock
    raw_content,   \* raw_response.choices[0].message.content
    resp_usage,    \* the usage the provider (or the mock) reports
    json_str,      \* the candidate chosen by the fallback chain
    output,        \* the ProcessingOutput returned
    error,         \* the exception process_prompt raised
    input_data,    \* the ProcessingInput of the call
    prompt_kwargs, \* keyword arguments of a PromptInput(...) call
    prompt_input,  \* what PromptInput(...) produced
    params_kwargs, \* keyword arguments of a ModelParameters(...) call
    model_parameters, \* what ModelParameters(...) produced
    settings,      \* app.models.config.settings
    init_args,     \* arguments of the OpenAIService(...) call
    service,       \* the OpenAIService: its api_key and its client
    requests,      \* the chat.completions.create calls of the call in flight
    logged,        \* the logger.error records of the call in flight
    create_error,  \* the exception chat.completions.create met the call with
    input_kwargs,  \* keyword arguments of a ProcessingInput(...) call
    processing_input, \* what ProcessingInput(...) produced
    metrics_args,  \* arguments of a call of the metrics builder
    response_metrics, \* the ResponseMetrics create_response_metrics returned
    response_time, \* the int calculate_response_time returned
    options,       \* what the extract command was started with
    exit_code,     \* the status the command ended with
    printed,       \* the print_error messages of the command
    calls          \* the calls made on the service so far, as the caller saw them

\* What one call of process_prompt reads of the provider and leaves behind.
callVars == <<resp_kind, raw_content, resp_usage, json_str, output, error,
              requests, logged, create_error>>

\* The request models' constructor calls.
modelVars == <<prompt_kwargs, prompt_input, params_kwargs, model_parameters,
               input_kwargs, processing_input>>

\* The metrics builder's calls.
metricsVars == <<metrics_args, response_metrics, response_time>>

\* The extract command.
commandVars == <<options, exit_code, printed>>

\* The service and what it was built from.
serviceVars == <<settings, init_args, service>>

vars == <<pc, resp_kind, raw_content, resp_usage, json_str, output, error,
          input_data, prompt_kwargs, prompt_input, params_kwargs,
          model_parameters, settings, init_args, service, requests, logged,
          input_kwargs, processing_input, metrics_args, response_metrics,
          response_time, options, exit_code, printed, create_error, calls>>

----------------------------------------------------------------------------
(* Bounds *)

MaxSegs == 3           \* a completion text is at most MaxSegs chunks long
MaxStrLen == 2         \* a prompt string has at most MaxStrLen characters
MaxTokensArg == 2      \* max_tokens arguments range over -1 .. MaxTokensArg
TempOver == 1          \* temperatures range TempOver hundredths beyond [0, 1]
MaxSeconds == 1        \* a clock reading has at most MaxSeconds whole seconds
MaxMillis == 1         \* and at most MaxMillis whole milliseconds above them
MaxCalls == 3          \* a service is called at most MaxCalls times

----------------------------------------------------------------------------
(* Lexemes *)

Fence == "'''"            \* stands for the three-backtick marker
Tag == "json"
Space == " "
Prose == "x"
StrLexemes == {"\"device\"", "\"CPAP\"", "\"usage\"", "\"add_ons\"", "\"humidifier\""}
NumLexemes == {"1"}

\* The Python str a JSON string literal decodes to (py_scanstring).
PyStr(lex) ==
    CASE lex = "\"device\"" -> "device"
      [] lex = "\"CPAP\"" -> "CPAP"
      [] lex = "\"usage\"" -> "usage"
      [] lex = "\"add_ons\"" -> "add_ons"
      [] lex = "\"humidifier\"" -> "humidifier"

\* The lexeme at position i, "EOF" past either end.
Tok(s, i) == IF i >= 1 /\ i <= Len(s) THEN s[i] ELSE "EOF"

\* \s of the patterns and the whitespace json.loads skips.
IsSpace(c) == c = Space

\* \s* : greedy; what follows it in both patterns ('{' or the fence) is not
\* whitespace, so giving characters back never helps.
RECURSIVE SkipSpace(_, _)
SkipSpace(s, i) == IF IsSpace(Tok(s, i)) THEN SkipSpace(s, i + 1) ELSE i

----------------------------------------------------------------------------
(* Python values produced by json.loads.  Every value has the same shape:  *)
(* t is the Python type, s the scalar's content, items the children.       *)
(* A dict's items are its key/value pairs in insertion order.              *)

PyNone == [t |-> "NoneType", s |-> "", items |-> <<>>]
PyString(str) == [t |-> "str", s |-> str, items |-> <<>>]
PyDigit(lex) == [t |-> "digit", s |-> lex, items |-> <<>>]
\* An int is kept as its decimal digits.
PyInt(digits) ==
    [t |-> "int", s |-> "", items |-> [k \in 1..Len(digits) |-> PyDigit(digits[k])]]
PyList(vs) == [t |-> "list", s |-> "", items |-> vs]
PyDict(pairs) == [t |-> "dict", s |-> "", items |-> pairs]
Pair(k, v) == [t |-> "pair", s |-> k, items |-> <<v>>]

\* dict[k] = v: a key already present keeps its place and takes the new value.
DictSet(pairs, k, v) ==
    IF \E i \in 1..Len(pairs) : pairs[i].s = k
    THEN [i \in 1..Len(pairs) |-> IF pairs[i].s = k THEN Pair(k, v) ELSE pairs[i]]
    ELSE Append(pairs, Pair(k, v))

DictKeys(d) == {d.items[i].s : i \in 1..Len(d.items)}

----------------------------------------------------------------------------
(* json.loads over lexemes (json/decoder.py, json/scanner.py): a parse     *)
(* step yields the value and the index after it, or fails with             *)
(* JSONDecodeError.                                                        *)

DecodeError == [ok |-> FALSE, val |-> PyNone, next |-> 0]
Decoded(v, n) == [ok |-> TRUE, val |-> v, next |-> n]

\* dict(pairs): later pairs overwrite earlier ones with the same key.
RECURSIVE dict(_, _)
dict(pairs, acc) ==
    IF pairs = <<>> THEN PyDict(acc)
    ELSE dict(Tail(pairs), DictSet(acc, Head(pairs).s, Head(pairs).items[1]))

\* NUMBER_RE.match(string, idx).end(): digits that touch are one number.
RECURSIVE NumberEnd(_, _)
NumberEnd(s, idx) == IF Tok(s, idx) \in NumLexemes THEN NumberEnd(s, idx + 1) ELSE idx

RECURSIVE scan_once(_, _), ObjectMembers(_, _, _), ArrayElements(_, _, _)

\* JSONObject, called with end just after the opening brace.
JSONObject(s, end) ==
    LET i == SkipSpace(s, end) IN
    IF Tok(s, i) = "}" THEN Decoded(PyDict(<<>>), i + 1)
    ELSE IF Tok(s, i) \in StrLexemes THEN ObjectMembers(s, i, <<>>)
    ELSE DecodeError       \* Expecting property name enclosed in double quotes

\* The while loop of JSONObject, entered with a key literal at index i.
ObjectMembers(s, i, pairs) ==
    LET key == PyStr(Tok(s, i))
        colon == SkipSpace(s, i + 1)
    IN  IF Tok(s, colon) # ":" THEN DecodeError          \* Expecting ':' delimiter
        ELSE LET v == scan_once(s, SkipSpace(s, colon + 1)) IN
             IF ~v.ok THEN DecodeError                    \* Expecting value
             ELSE LET m == SkipSpace(s, v.next)
                      more == Append(pairs, Pair(key, v.val))
                  IN  IF Tok(s, m) = "}" THEN Decoded(dict(more, <<>>), m + 1)
                      ELSE IF Tok(s, m) # "," THEN DecodeError   \* Expecting ',' delimiter
                      ELSE LET n == SkipSpace(s, m + 1) IN
                           IF Tok(s, n) \in StrLexemes
                           THEN ObjectMembers(s, n, more)
                           ELSE DecodeError

\* JSONArray, called with end just after the opening bracket.
JSONArray(s, end) ==
    LET i == SkipSpace(s, end) IN
    IF Tok(s, i) = "]" THEN Decoded(PyList(<<>>), i + 1)
    ELSE ArrayElements(s, i, <<>>)

\* The while loop of JSONArray, entered with a value expected at index i.
ArrayElements(s, i, values) ==
    LET v == scan_once(s, i) IN
    IF ~v.ok THEN DecodeError                             \* Expecting value
    ELSE LET m == SkipSpace(s, v.next)
             more == Append(values, v.val)
         IN  IF Tok(s, m) = "]" THEN Decoded(PyList(more), m + 1)
             ELSE IF Tok(s, m) # "," THEN DecodeError     \* Expecting ',' delimiter
             ELSE ArrayElements(s, SkipSpace(s, m + 1), more)

scan_once(s, idx) ==
    LET nextchar == Tok(s, idx) IN
    CASE nextchar \in StrLexemes -> Decoded(PyString(PyStr(nextchar)), idx + 1)
      [] nextchar = "{" -> JSONObject(s, idx + 1)
      [] nextchar = "[" -> JSONArray(s, idx + 1)
      [] nextchar \in NumLexemes ->
            Decoded(PyInt(SubSeq(s, idx, NumberEnd(s, idx) - 1)), NumberEnd(s, idx))
      [] OTHER -> DecodeError                             \* StopIteration

\* json.loads(s): one value, whitespace around it, nothing else.
json_loads(s) ==
    LET r == scan_once(s, SkipSpace(s, 1)) IN
    IF ~r.ok THEN DecodeError
    ELSE IF SkipSpace(s, r.next) # Len(s) + 1 THEN DecodeError    \* Extra data
    ELSE r

----------------------------------------------------------------------------
(* The two patterns of process_prompt, searched as re.search does: the     *)
(* leftmost start position that matches wins, and the lazy [\s\S]*? takes  *)
(* the shortest body after which the rest of the pattern matches.          *)

NoMatch == [ok |-> FALSE, start |-> 0, end |-> 0]
Match(b, e) == [ok |-> TRUE, start |-> b, end |-> e]

\* ({[\s\S]*?})\s*FENCE from the opening brace at b: the body is extended one
\* lexeme at a time until a '}' followed by \s* and the fence is found.
RECURSIVE FencedBody(_, _, _)
FencedBody(s, b, e) ==
    IF e > Len(s) THEN NoMatch
    ELSE IF s[e] = "}" /\ Tok(s, SkipSpace(s, e + 1)) = Fence THEN Match(b, e)
    ELSE FencedBody(s, b, e + 1)

\* Mutation: the pattern without (?:json)?, so a tagged fence does not match.
MatchFencedAt_noTag(s, p) ==
    IF Tok(s, p) # Fence THEN NoMatch
    ELSE LET b == SkipSpace(s, p + 1)
         IN  IF Tok(s, b) # "{" THEN NoMatch ELSE FencedBody(s, b, b + 1)

\* The fenced pattern anchored at p: the fence, the optional tag (taken when
\* present: without it the tag is neither \s nor '{'), \s*, then group 1.
MatchFencedAt(s, p) ==
    IF Tok(s, p) # Fence THEN NoMatch
    ELSE LET q == IF Tok(s, p + 1) = Tag THEN p + 2 ELSE p + 1
             b == SkipSpace(s, q)
         IN  IF Tok(s, b) # "{" THEN NoMatch ELSE FencedBody(s, b, b + 1)

\* re.search(fenced pattern, s): group 1 of the leftmost match.
RECURSIVE SearchFenced(_, _)
SearchFenced(s, p) ==
    IF p > Len(s) THEN NoMatch
    ELSE LET m == MatchFencedAt(s, p) IN
         IF m.ok THEN m ELSE SearchFenced(s, p + 1)

\* Mutation: the greedy {[\s\S]*}, which runs to the last '}' of the text.
BraceBody_greedy(s, b, e) ==
    LET closers == {k \in e..Len(s) : s[k] = "}"} IN
    IF closers = {} THEN NoMatch
    ELSE Match(b, CHOOSE k \in closers : \A j \in closers : j <= k)

\* {[\s\S]*?} from the opening brace at b: the first '}' after it.
RECURSIVE BraceBody(_, _, _)
BraceBody(s, b, e) ==
    IF e > Len(s) THEN NoMatch
    ELSE IF s[e] = "}" THEN Match(b, e)
    ELSE BraceBody(s, b, e + 1)

MatchBraceAt(s, p) ==
    IF Tok(s, p) # "{" THEN NoMatch ELSE BraceBody(s, p, p + 1)

\* re.search(brace pattern, s): group 0 of the leftmost match.
RECURSIVE SearchBrace(_, _)
SearchBrace(s, p) ==
    IF p > Len(s) THEN NoMatch
    ELSE LET m == MatchBraceAt(s, p) IN
         IF m.ok THEN m ELSE SearchBrace(s, p + 1)

\* Mutation: the two searches in the opposite order.
SelectCandidate_braceFirst(s) ==
    LET brace == SearchBrace(s, 1) IN
    IF brace.ok THEN SubSeq(s, brace.start, brace.end)
    ELSE LET fenced == SearchFenced(s, 1) IN
         IF fenced.ok THEN SubSeq(s, fenced.start, fenced.end)
         ELSE s

\* The fallback chain: fenced span, else any brace span, else the raw text.
SelectCandidate(s) ==
    LET fenced == SearchFenced(s, 1) IN
    IF fenced.ok THEN SubSeq(s, fenced.start, fenced.end)
    ELSE LET brace == SearchBrace(s, 1) IN
         IF brace.ok THEN SubSeq(s, brace.start, brace.end)
         ELSE s

----------------------------------------------------------------------------
(* Float arithmetic of calculate_response_time.  A timestamp is a count of *)
(* microseconds; a float is a 53-digit binary mantissa m and an exponent e *)
(* and stands for m * 2^e.  Numerals too long for an integer are kept as   *)
(* sequences of limbs, most significant first.                             *)

MantissaBits == 53
LimbBits == 15
Limb == 2^LimbBits

Zeros(k) == [i \in 1..k |-> 0]

\* The limbs of n, 0 <= n < 2^31.
Limbs(n) == <<n \div (Limb * Limb), (n \div Limb) % Limb, n % Limb>>

\* The binary digits of a limb sequence.
BitsOf(limbs) ==
    [i \in 1..(LimbBits * Len(limbs)) |->
        (limbs[(i - 1) \div LimbBits + 1]
            \div 2^(LimbBits - 1 - ((i - 1) % LimbBits))) % 2]

RECURSIVE ToInt(_)
ToInt(b) == IF b = <<>> THEN 0 ELSE 2 * ToInt(SubSeq(b, 1, Len(b) - 1)) + b[Len(b)]

\* The limbs of a binary numeral whose length is a multiple of LimbBits.
LimbsOf(b) ==
    [j \in 1..(Len(b) \div LimbBits) |->
        ToInt(SubSeq(b, (j - 1) * LimbBits + 1, j * LimbBits))]

StripZeros(b) ==
    LET ones == {i \in 1..Len(b) : b[i] = 1} IN
    IF ones = {} THEN <<>>
    ELSE SubSeq(b, CHOOSE i \in ones : \A k \in ones : i <= k, Len(b))

\* b + 1; one digit longer when b is all ones.
Increment(b) ==
    LET zeros == {i \in 1..Len(b) : b[i] = 0} IN
    IF zeros = {} THEN <<1>> \o Zeros(Len(b))
    ELSE LET j == CHOOSE i \in zeros : \A k \in zeros : i >= k
         IN  [i \in 1..Len(b) |-> IF i < j THEN b[i] ELSE IF i = j THEN 1 ELSE 0]

\* Short division of a limb sequence by d < Limb.
RECURSIVE DivLimbs(_, _, _)
DivLimbs(limbs, d, rem) ==
    IF limbs = <<>> THEN [q |-> <<>>, r |-> rem]
    ELSE LET t == rem * Limb + Head(limbs)
             rest == DivLimbs(Tail(limbs), d, t % d)
         IN  [q |-> <<t \div d>> \o rest.q, r |-> rest.r]

\* Product of a limb sequence and c < Limb.
RECURSIVE MulLimbs(_, _, _)
MulLimbs(limbs, c, carry) ==
    IF limbs = <<>> THEN <<carry>>
    ELSE LET t == limbs[Len(limbs)] * c + carry
         IN  Append(MulLimbs(SubSeq(limbs, 1, Len(limbs) - 1), c, t \div Limb),
                    t % Limb)

Float(m, e) == [m |-> m, e |-> e]

\* The double nearest to (b + fraction) * 2^e, ties to even; inexact says
\* that a non-zero fraction lies below the last digit of b.
RoundToDouble(bits, e, inexact) ==
    LET b == StripZeros(bits) IN
    IF b = <<>> THEN Float(<<>>, 0)
    ELSE IF Len(b) <= MantissaBits
    THEN Float(b \o Zeros(MantissaBits - Len(b)), e - (MantissaBits - Len(b)))
    ELSE LET m == SubSeq(b, 1, MantissaBits)
             guard == b[MantissaBits + 1]
             sticky == inexact \/ \E k \in (MantissaBits + 2)..Len(b) : b[k] = 1
             e2 == e + (Len(b) - MantissaBits)
             up == guard = 1 /\ (sticky \/ m[MantissaBits] = 1)
             m2 == IF up THEN Increment(m) ELSE m
         IN  IF Len(m2) > MantissaBits
             THEN Float(SubSeq(m2, 1, MantissaBits), e2 + 1)
             ELSE Float(m2, e2)

RECURSIVE TrailingZeros(_)
TrailingZeros(d) == IF d % 2 = 0 THEN 1 + TrailingZeros(d \div 2) ELSE 0

\* n / d for ints n >= 0 and d > 0 whose odd part is below Limb: the
\* correctly rounded quotient, as int.__truediv__ gives it.
TrueDivide(n, d) ==
    LET shift == TrailingZeros(d)
        extra == 5
        qr == DivLimbs(Limbs(n) \o Zeros(extra), d \div 2^shift, 0)
    IN  RoundToDouble(BitsOf(qr.q), 0 - extra * LimbBits - shift, qr.r # 0)

\* x * c for a float x >= 0 and an int c, 0 < c < Limb.
FloatMul(x, c) ==
    IF x.m = <<>> THEN Float(<<>>, 0)
    ELSE LET pad == (LimbBits - (MantissaBits % LimbBits)) % LimbBits
             limbs == LimbsOf(Zeros(pad) \o x.m)
         IN  RoundToDouble(BitsOf(MulLimbs(limbs, c, 0)), x.e, FALSE)

\* int(x) for a float x >= 0.
FloatToInt(x) ==
    IF x.m = <<>> THEN 0
    ELSE IF x.e >= 0 THEN ToInt(x.m \o Zeros(x.e))
    ELSE IF 0 - x.e >= Len(x.m) THEN 0
    ELSE ToInt(SubSeq(x.m, 1, Len(x.m) + x.e))

\* timedelta.total_seconds(): the microseconds over 10**6, as a float with
\* its sign apart.
total_seconds(delta) ==
    [neg |-> delta < 0,
     abs |-> TrueDivide(IF delta < 0 THEN 0 - delta ELSE delta, 10^6)]

\* int(delta.total_seconds() * 1000): int() cuts toward zero.
calculate_response_time(start_time, end_time) ==
    LET delta == end_time - start_time
        seconds == total_seconds(delta)
        millis == FloatToInt(FloatMul(seconds.abs, 1000))
    IN  IF seconds.neg THEN 0 - millis ELSE millis

----------------------------------------------------------------------------
(* Output models (app/models/output.py) and metrics (app/utils/metrics.py) *)

CounterNames == {"prompt_tokens", "completion_tokens", "total_tokens"}

\* A usage mapping: the counters it holds (has) and their values (n).
UsageDict(keys, p, c, t) ==
    [has |-> keys,
     n |-> [prompt_tokens |-> p, completion_tokens |-> c, total_tokens |-> t]]
EmptyUsage == UsageDict({}, 0, 0, 0)

\* Mutation: usage[key] whether the mapping holds the key or not.
UsageGet_noDefault(usage, key) == usage.n[key]

\* usage.get(key, 0)
UsageGet(usage, key) == IF key \in usage.has THEN usage.n[key] ELSE 0

TokenUsage(usage) ==
    [prompt_tokens |-> UsageGet(usage, "prompt_tokens"),
     completion_tokens |-> UsageGet(usage, "completion_tokens"),
     total_tokens |-> UsageGet(usage, "total_tokens")]

create_response_metrics(start_time, end_time, usage, model) ==
    [start_time |-> start_time,
     end_time |-> end_time,
     response_time_ms |-> calculate_response_time(start_time, end_time),
     token_usage |-> TokenUsage(usage),
     model |-> model]

\* Mutation: a fixed schema of scalar fields, nested values dropped.
EntityOutput_scalarsOnly(data) ==
    PyDict(SelectSeq(data.items, LAMBDA pr : pr.items[1].t \notin {"list", "dict"}))

\* EntityOutput(**data): extra="allow" keeps every keyword as a field.
EntityOutput(data) == PyDict(data.items)

\* hasattr(response, name) for an EntityOutput: its extra fields.
HasAttr(response, name) == name \in DictKeys(response)

ProcessingOutput(result, metrics, raw) ==
    [result |-> result, metrics |-> metrics, raw_response |-> raw]

NoOutput ==
    ProcessingOutput(PyNone, create_response_metrics(0, 0, EmptyUsage, ""), PyNone)

----------------------------------------------------------------------------
(* Request models (app/models/input.py).  A prompt string is a sequence of *)
(* characters; a keyword argument is either given with a value or omitted. *)
(* A temperature is counted in hundredths.                                 *)

Chars == {" ", "\n", "a"}
Whitespace == {" ", "\n"}

Given(v) == [given |-> TRUE, value |-> v]
Omitted(v) == [given |-> FALSE, value |-> v]

Valid(v) == [ok |-> TRUE, value |-> v]
Invalid(v) == [ok |-> FALSE, value |-> v]

\* str.lstrip / str.rstrip / str.strip
RECURSIVE lstrip(_)
lstrip(v) == IF v # <<>> /\ Head(v) \in Whitespace THEN lstrip(Tail(v)) ELSE v

RECURSIVE rstrip(_)
rstrip(v) ==
    IF v # <<>> /\ v[Len(v)] \in Whitespace THEN rstrip(SubSeq(v, 1, Len(v) - 1)) ELSE v

strip(v) == rstrip(lstrip(v))

\* Mutation: the test is "not v", without the strip.
validate_not_empty_noStrip(v) == IF v = <<>> THEN Invalid(v) ELSE Valid(v)

\* PromptInput.validate_not_empty
validate_not_empty(v) == IF strip(v) = <<>> THEN Invalid(v) ELSE Valid(v)

\* A str field with a default: pydantic runs the field validator on a value
\* the caller gives and takes the default as it is (validate_default is off).
PromptField(arg, default) ==
    IF arg.given THEN validate_not_empty(arg.value) ELSE Valid(default)

\* A required field: omitting it is a validation error.
RequiredPromptField(arg) ==
    IF arg.given THEN validate_not_empty(arg.value) ELSE Invalid(<<>>)

PromptInput(kw) ==
    LET sp == PromptField(kw.system_prompt, <<>>)
        up == PromptField(kw.user_prompt, <<>>)
        st == RequiredPromptField(kw.sample_text)
    IN  IF sp.ok /\ up.ok /\ st.ok
        THEN [ok |-> TRUE, system_prompt |-> sp.value,
              user_prompt |-> up.value, sample_text |-> st.value]
        ELSE [ok |-> FALSE, system_prompt |-> <<>>,
              user_prompt |-> <<>>, sample_text |-> <<>>]

Hundredths(x) == x * 100

DefaultModel == "gpt-4o"
DefaultTemperature == Hundredths(0)
DefaultMaxTokens == 1000

\* temperature: ge=0.0, le=1.0
TemperatureField(arg) ==
    IF ~arg.given THEN Valid(DefaultTemperature)
    ELSE IF arg.value >= Hundredths(0) /\ arg.value <= Hundredths(1)
         THEN Valid(arg.value) ELSE Invalid(arg.value)

\* Mutation: ge=0 in place of gt=0.
MaxTokensField_ge(arg) ==
    IF ~arg.given THEN Valid(DefaultMaxTokens)
    ELSE IF arg.value >= 0 THEN Valid(arg.value) ELSE Invalid(arg.value)

\* max_tokens: gt=0
MaxTokensField(arg) ==
    IF ~arg.given THEN Valid(DefaultMaxTokens)
    ELSE IF arg.value > 0 THEN Valid(arg.value) ELSE Invalid(arg.value)

ModelField(arg) == IF arg.given THEN Valid(arg.value) ELSE Valid(DefaultModel)

ModelParameters(kw) ==
    LET m == ModelField(kw.model)
        temp == TemperatureField(kw.temperature)
        mt == MaxTokensField(kw.max_tokens)
    IN  IF m.ok /\ temp.ok /\ mt.ok
        THEN [ok |-> TRUE, model |-> m.value,
              temperature |-> temp.value, max_tokens |-> mt.value]
        ELSE [ok |-> FALSE, model |-> "", temperature |-> 0, max_tokens |-> 0]

\* None where a record is expected.
IsNone(v) == "t" \in DOMAIN v

\* parameters: Optional[ModelParameters] = Field(default_factory=ModelParameters):
\* the factory serves an omitted argument; a given one is taken when it is
\* a ModelParameters or None.
ParametersField(arg) ==
    IF ~arg.given THEN Valid(ModelParameters([model |-> Omitted(""),
                                              temperature |-> Omitted(0),
                                              max_tokens |-> Omitted(0)]))
    ELSE Valid(arg.value)

ProcessingInput(kw) ==
    LET \* prompt: PromptInput, a required field
        p == IF kw.prompt.given THEN Valid(kw.prompt.value)
             ELSE Invalid(kw.prompt.value)
        mp == ParametersField(kw.parameters)
    IN  [ok |-> p.ok /\ mp.ok, prompt |-> p.value, parameters |-> mp.value]

----------------------------------------------------------------------------
(* Completion texts: every sequence of at most MaxSegs chunks.             *)

\* {"device": "CPAP", "add_ons": ["humidifier"]}
ObjWithList ==
    <<"{", "\"device\"", ":", Space, "\"CPAP\"", ",", Space,
      "\"add_ons\"", ":", Space, "[", "\"humidifier\"", "]", "}">>

\* {"usage": {"device": "CPAP"}}
ObjWithDict ==
    <<"{", "\"usage\"", ":", Space, "{", "\"device\"", ":", Space, "\"CPAP\"", "}", "}">>

\* A brace span that is not JSON.
BadSpan == <<"{", Prose, "}">>

\* The usual shape of a completion: tagged fence, newline, object, newline, fence.
FencedObj == <<Fence, Tag, Space>> \o ObjWithList \o <<Space, Fence>>

\* A fenced block whose brace span is not JSON.
FencedBad == <<Fence>> \o BadSpan \o <<Fence>>

Vocabulary ==
    << <<Prose>>, <<Space>>, <<Fence>>, <<Fence, Tag>>,
       ObjWithList, ObjWithDict, BadSpan, <<"{">>, <<"}">>,
       <<"1">>, <<"[", "1", "]">>,
       FencedObj, FencedBad >>

RECURSIVE Concat(_)
Concat(chunks) == IF chunks = <<>> THEN <<>> ELSE Head(chunks) \o Concat(Tail(chunks))

Texts ==
    {Concat([i \in DOMAIN f |-> Vocabulary[f[i]]]) :
        f \in UNION {[1..n -> 1..Len(Vocabulary)] : n \in 0..MaxSegs}}

----------------------------------------------------------------------------
(* OpenAIService.__init__ and _create_client.  A key is None or a str.    *)

MagicMock == [t |-> "MagicMock", s |-> "", items |-> <<>>]

\* OpenAI(api_key=...): the client holds the key it was built with.
OpenAI(api_key) == [t |-> "OpenAI", s |-> api_key.s, items |-> <<>>]

\* bool(v) for a key: None and "" are false.
Truthy(v) == v.t = "str" /\ v.s # ""

\* a or b
Or(a, b) == IF Truthy(a) THEN a ELSE b

Settings(key) == [openai_api_key |-> key]

ApiKeyArgs == {PyNone, PyString(""), PyString("test_key")}
SettingsKeys == {PyNone, PyString(""), PyString("settings_key")}
MockClientArgs == {PyNone, MagicMock}

NoInitArgs == [api_key |-> PyNone, mock_client |-> PyNone]
NoService == [api_key |-> PyNone, client |-> PyNone]

LogRecord(message, exc) == [message |-> message, exc |-> exc]

\* Mutation: the settings key is looked at first.
SelectApiKey_settingsFirst(api_key) == Or(settings.openai_api_key, api_key)

\* Line 27: self.api_key = api_key or settings.openai_api_key
SelectApiKey(api_key) == Or(api_key, settings.openai_api_key)

\* Mutation: the client is built whatever the key.
_create_client_unchecked(api_key) ==
    [ok |-> TRUE, client |-> OpenAI(api_key), log |-> <<>>]

\* _create_client: no key, no client.
_create_client(api_key) ==
    IF ~Truthy(api_key)
    THEN [ok |-> FALSE, client |-> PyNone,
          log |-> <<LogRecord("OpenAI API key is not set", "none")>>]
    ELSE [ok |-> TRUE, client |-> OpenAI(api_key), log |-> <<>>]

\* OpenAIService(api_key=api_key, mock_client=mock_client)
OpenAIService(api_key, mock_client) ==
    LET key == SelectApiKey(api_key)
        built == _create_client(key)
    IN  /\ init_args' = [api_key |-> api_key, mock_client |-> mock_client]
        /\ IF mock_client # PyNone
           THEN /\ service' = [api_key |-> key, client |-> mock_client]
                /\ pc' = "ready"
                /\ error' = "none"
                /\ logged' = <<>>
           ELSE IF built.ok
           THEN /\ service' = [api_key |-> key, client |-> built.client]
                /\ pc' = "ready"
                /\ error' = "none"
                /\ logged' = built.log
           ELSE /\ service' = NoService
                /\ pc' = "init_failed"
                /\ error' = "ValueError: OpenAI API key is required"
                /\ logged' = built.log

ConstructService ==
    /\ pc = "new"
    /\ \E api_key \in ApiKeyArgs, mock_client \in MockClientArgs :
          OpenAIService(api_key, mock_client)
    /\ UNCHANGED <<resp_kind, raw_content, resp_usage, json_str, output,
                   requests, create_error, input_data, settings>>
    /\ UNCHANGED <<modelVars, metricsVars, commandVars, calls>>

\* The services a call of process_prompt can find built.
BuiltServices ==
    {[api_key |-> PyString("test_key"), client |-> OpenAI(PyString("test_key"))],
     [api_key |-> PyString("test_key"), client |-> MagicMock]}

----------------------------------------------------------------------------
(* OpenAIService.process_prompt                                            *)

ProviderUsages == {EmptyUsage, UsageDict(CounterNames, 100, 50, 150)}

\* What a failing chat.completions.create call raises.
ProviderErrors == {"APIConnectionError", "APIError"}

\* The texts of the calls in which the completion is not what is looked at.
ServiceTexts == {FencedObj, <<Prose>>, <<"1">>}

\* The dict the mocked response's model_dump returns in the tests.
MockEntity == json_loads(ObjWithList).val

SampleInput ==
    [prompt |-> [system_prompt |-> <<"a">>, user_prompt |-> <<"a">>,
                 sample_text |-> <<"a">>],
     parameters |-> ModelParameters([model |-> Omitted(""), temperature |-> Omitted(0),
                                     max_tokens |-> Omitted(0)])]

\* One second in microseconds, and the two readings of datetime.now() the
\* tests set up.
Second == 10^6
SampleClock == {<<0, Second>>}

\* Mutation: the label is left out.
UserContent_noLabel(prompt) == prompt.user_prompt \o prompt.sample_text

\* Line 64: f"{user_prompt}\n\nInput Text: {sample_text}"
UserContent(prompt) ==
    prompt.user_prompt \o <<"\n", "\n", "Input Text: ">> \o prompt.sample_text

\* Lines 62-65
Messages(prompt) ==
    << [role |-> "system", content |-> prompt.system_prompt],
       [role |-> "user", content |-> UserContent(prompt)] >>

\* Lines 98-103: the keyword arguments of chat.completions.create
Request(input) ==
    [model |-> input.parameters.model,
     messages |-> Messages(input.prompt),
     temperature |-> input.parameters.temperature,
     max_tokens |-> input.parameters.max_tokens]

\* result.model_dump(): the fields as a dict.
model_dump(result) == PyDict(result.items)

\* Lines 195-197: the response is the EntityOutput, not the provider's
\* response; a field named usage holds a value json.loads built, which has
\* no model_dump, so the usage mapping stays empty either way.
UsageOfEntity(response) ==
    IF HasAttr(response, "usage") THEN EmptyUsage ELSE EmptyUsage

\* Mutation: the metrics name the configured default model.
Returns_defaultModel(cand, result, usage, now) ==
    /\ pc' = "returned"
    /\ json_str' = cand
    /\ output' = ProcessingOutput(result,
                    create_response_metrics(now[1], now[2], usage, DefaultModel),
                    model_dump(result))
    /\ error' = "none"

\* Lines 150-205; now holds the readings of the two datetime.now() calls.
Returns(cand, result, usage, now) ==
    /\ pc' = "returned"
    /\ json_str' = cand
    /\ output' = ProcessingOutput(result,
                    create_response_metrics(now[1], now[2], usage,
                                            input_data.parameters.model),
                    model_dump(result))
    /\ error' = "none"

\* Mutation: the failure becomes an empty result.
Raises_swallowed(cand, exc) ==
    /\ pc' = "returned"
    /\ json_str' = cand
    /\ output' = ProcessingOutput(PyDict(<<>>),
                    create_response_metrics(0, 0, EmptyUsage, ""), PyDict(<<>>))
    /\ error' = "none"
    /\ logged' = <<LogRecord("Error processing prompt", exc)>>

\* Lines 207-209: except Exception logs the error and raises it again.
Raises(cand, exc) ==
    /\ pc' = "raised"
    /\ json_str' = cand
    /\ output' = NoOutput
    /\ error' = exc
    /\ logged' = <<LogRecord("Error processing prompt", exc)>>

\* Lines 68-70, outside the try: reading a field of None.
Propagates(exc) ==
    /\ pc' = "raised"
    /\ json_str' = <<>>
    /\ output' = NoOutput
    /\ error' = exc
    /\ logged' = <<>>
    /\ requests' = <<>>
    /\ create_error' = "none"

\* Mutation: the parse error is raised to the caller.
OnJSONDecodeError_reraise(cand, now) == Raises(cand, "JSONDecodeError")

\* Lines 145-148: except json.JSONDecodeError, the response is an empty
\* EntityOutput and the call goes on to build its output.
OnJSONDecodeError(cand, now) ==
    /\ Returns(cand, EntityOutput(PyDict(<<>>)), EmptyUsage, now)
    /\ logged' = <<LogRecord("Failed to parse JSON from response", "JSONDecodeError")>>

\* Mutation: a completion that cannot be decoded is answered with the result
\* the service returned last.
ProcessText_lastResult(text, now) ==
    LET cand == SelectCandidate(text)
        entity_data == json_loads(cand)
    IN  IF ~entity_data.ok
        THEN /\ Returns(cand, IF output = NoOutput THEN EntityOutput(PyDict(<<>>))
                              ELSE output.result, EmptyUsage, now)
             /\ logged' = <<LogRecord("Failed to parse JSON from response",
                                      "JSONDecodeError")>>
        ELSE IF entity_data.val.t # "dict"
        THEN Raises(cand, "TypeError")
        ELSE LET response == EntityOutput(entity_data.val) IN
             /\ Returns(cand, response, UsageOfEntity(response), now)
             /\ logged' = <<>>

\* Lines 124-148 and 150-205: a str completion.
ProcessText(text, now) ==
    LET cand == SelectCandidate(text)
        entity_data == json_loads(cand)
    IN  IF ~entity_data.ok THEN OnJSONDecodeError(cand, now)
        ELSE IF entity_data.val.t # "dict"
        THEN \* EntityOutput(**entity_data) needs a mapping; the outer
             \* except Exception logs the TypeError and raises it again
             Raises(cand, "TypeError")
        ELSE LET response == EntityOutput(entity_data.val) IN
             /\ Returns(cand, response, UsageOfEntity(response), now)
             /\ logged' = <<>>

\* Lines 82-95, 113-122, 160-166 and 179-194: a MagicMock client.  A
\* side_effect set on create is raised before create is called.
ProcessMock(side_effect, usage, now) ==
    IF side_effect
    THEN /\ requests' = <<>>
         /\ create_error' = "side_effect"
         /\ Raises(<<>>, "side_effect")
    ELSE /\ requests' = <<Request(input_data)>>
         /\ create_error' = "none"
         /\ Returns(<<>>, EntityOutput(MockEntity),
                    IF usage.has # {} THEN usage
                    ELSE UsageDict(CounterNames, 100, 50, 150), now)
         /\ logged' = <<>>

\* Mutation: a failed call is sent once more.
CreateFails_retry(request, exc) ==
    /\ requests' = <<request, request>>
    /\ create_error' = exc
    /\ Raises(<<>>, exc)

\* Lines 98-103 and 207-209: chat.completions.create raises.
CreateFails(request, exc) ==
    /\ requests' = <<request>>
    /\ create_error' = exc
    /\ Raises(<<>>, exc)

\* One call of process_prompt whose completion is one of texts and whose
\* two clock readings are one of the pairs of clock.
Invoke(texts, clock) ==
    /\ pc = "ready"
    /\ IF IsNone(input_data.parameters)
       THEN /\ resp_kind' = "none"
            /\ raw_content' = <<>>
            /\ resp_usage' = EmptyUsage
            /\ Propagates("AttributeError")
       ELSE \/ \E text \in texts, usage \in ProviderUsages, now \in clock :
                 /\ service.client.t = "OpenAI"
                 /\ resp_kind' = "text"
                 /\ raw_content' = text
                 /\ resp_usage' = usage
                 /\ requests' = <<Request(input_data)>>
                 /\ create_error' = "none"
                 /\ ProcessText(text, now)
            \/ \E side_effect \in BOOLEAN, usage \in ProviderUsages, now \in clock :
                 /\ service.client.t = "MagicMock"
                 /\ resp_kind' = "mock"
                 /\ raw_content' = <<>>
                 /\ resp_usage' = usage
                 /\ ProcessMock(side_effect, usage, now)
            \/ \E exc \in ProviderErrors :
                 /\ service.client.t = "OpenAI"
                 /\ resp_kind' = "error"
                 /\ raw_content' = <<>>
                 /\ resp_usage' = EmptyUsage
                 /\ CreateFails(Request(input_data), exc)
    /\ UNCHANGED <<input_data, modelVars, serviceVars, metricsVars, commandVars>>

process_prompt == Invoke(Texts, SampleClock) /\ UNCHANGED calls

----------------------------------------------------------------------------
(* Constructor calls                                                       *)

Strings == UNION {[1..n -> Chars] : n \in 0..MaxStrLen}
StrArgs == {Omitted(<<>>)} \cup {Given(v) : v \in Strings}

PromptKwargs == [system_prompt : StrArgs, user_prompt : StrArgs, sample_text : StrArgs]

Temperatures == (Hundredths(0) - TempOver)..(Hundredths(1) + TempOver)

ParamsKwargs ==
    [model : {Omitted(""), Given("gpt-4o"), Given("gpt-3.5-turbo")},
     temperature : {Omitted(0)} \cup {Given(x) : x \in Temperatures},
     max_tokens : {Omitted(0)} \cup {Given(n) : n \in -1..MaxTokensArg}]

NoPromptKwargs == [system_prompt |-> Omitted(<<>>), user_prompt |-> Omitted(<<>>),
                   sample_text |-> Omitted(<<>>)]
NoParamsKwargs == [model |-> Omitted(""), temperature |-> Omitted(0),
                   max_tokens |-> Omitted(0)]

\* The PromptInput and ModelParameters values a caller holds: some of those
\* that construction returned.
PromptValues ==
    {PromptInput(kw) :
        kw \in [system_prompt : {Omitted(<<>>), Given(<<"a">>)},
                user_prompt : {Omitted(<<>>), Given(<<"a", "\n">>)},
                sample_text : {Given(<<"a">>), Given(<<" ", "a">>)}]}
ParameterValues ==
    {ModelParameters(NoParamsKwargs),
     ModelParameters([model |-> Given("gpt-3.5-turbo"),
                      temperature |-> Given(Hundredths(1)),
                      max_tokens |-> Given(1)])}

InputKwargs ==
    [prompt : {Omitted(PromptInput(NoPromptKwargs))} \cup {Given(p) : p \in PromptValues},
     parameters : {Omitted(PyNone), Given(PyNone)}
                     \cup {Given(mp) : mp \in ParameterValues}]

NoInputKwargs == [prompt |-> Omitted(PromptInput(NoPromptKwargs)),
                  parameters |-> Omitted(PyNone)]

ConstructPromptInput ==
    /\ pc = "ready"
    /\ \E kw \in PromptKwargs :
          /\ prompt_kwargs' = kw
          /\ prompt_input' = PromptInput(kw)
    /\ pc' = "prompt_input"
    /\ UNCHANGED <<params_kwargs, model_parameters, input_kwargs, processing_input>>
    /\ UNCHANGED <<input_data, callVars, serviceVars, metricsVars,
                   commandVars, calls>>

ConstructModelParameters ==
    /\ pc = "ready"
    /\ \E kw \in ParamsKwargs :
          /\ params_kwargs' = kw
          /\ model_parameters' = ModelParameters(kw)
    /\ pc' = "model_parameters"
    /\ UNCHANGED <<prompt_kwargs, prompt_input, input_kwargs, processing_input>>
    /\ UNCHANGED <<input_data, callVars, serviceVars, metricsVars,
                   commandVars, calls>>

ConstructProcessingInput ==
    /\ pc = "ready"
    /\ \E kw \in InputKwargs :
          /\ input_kwargs' = kw
          /\ processing_input' = ProcessingInput(kw)
    /\ pc' = "processing_input"
    /\ UNCHANGED <<prompt_kwargs, prompt_input, params_kwargs, model_parameters>>
    /\ UNCHANGED <<input_data, callVars, serviceVars, metricsVars,
                   commandVars, calls>>

----------------------------------------------------------------------------
(* Calls of the metrics builder                                            *)

\* Clock readings, in microseconds.
Instants ==
    {sec * Second + ms * 1000 + us :
        sec \in 0..MaxSeconds, ms \in 0..MaxMillis, us \in {0, 500}}

\* Usage mappings: every subset of the counters, with the tests' values.
Usages == {UsageDict(keys, 100, 50, 150) : keys \in SUBSET CounterNames}

NoMetricsArgs == [start_time |-> 0, end_time |-> 0, usage |-> EmptyUsage, model |-> ""]

CallCalculateResponseTime ==
    /\ pc = "ready"
    /\ \E start_time \in Instants, end_time \in Instants :
          /\ metrics_args' = [start_time |-> start_time, end_time |-> end_time,
                              usage |-> EmptyUsage, model |-> ""]
          /\ response_time' = calculate_response_time(start_time, end_time)
    /\ pc' = "response_time"
    /\ UNCHANGED <<response_metrics, input_data, callVars, modelVars, serviceVars,
                   commandVars, calls>>

CallCreateResponseMetrics ==
    /\ pc = "ready"
    /\ \E start_time \in Instants, end_time \in Instants,
          usage \in Usages, model \in {"gpt-4o", "gpt-3.5-turbo"} :
          /\ metrics_args' = [start_time |-> start_time, end_time |-> end_time,
                              usage |-> usage, model |-> model]
          /\ response_metrics' =
                create_response_metrics(start_time, end_time, usage, model)
    /\ pc' = "metrics"
    /\ UNCHANGED <<response_time, input_data, callVars, modelVars, serviceVars,
                   commandVars, calls>>

----------------------------------------------------------------------------
(* The extract command (app/main.py).  A text comes from a file, from an   *)
(* option, or, in interactive mode, from an answer typed at the prompt.    *)

\* One text's sources: file says whether --x-file was given and whether the
\* file can be read, held is what the file holds, option is the --x option.
Source(file, held, option) == [file |-> file, held |-> held, option |-> option]

NoSource == Source("none", <<>>, Omitted(<<>>))

Sources ==
    {NoSource,
     Source("none", <<>>, Given(<<>>)),
     Source("none", <<>>, Given(<<"a">>)),
     Source("none", <<>>, Given(<<" ">>)),
     Source("readable", <<"a">>, Given(<<"a", "a">>)),
     Source("readable", <<"\n">>, Omitted(<<>>)),
     Source("unreadable", <<>>, Omitted(<<>>))}

Answers == {<<"a">>, <<" ">>}

\* --model, --temperature (in hundredths) and --max-tokens
ParameterOptions ==
    {[model |-> DefaultModel, temperature |-> DefaultTemperature,
      max_tokens |-> DefaultMaxTokens],
     [model |-> "gpt-3.5-turbo", temperature |-> Hundredths(1) + 50,
      max_tokens |-> DefaultMaxTokens],
     [model |-> DefaultModel, temperature |-> DefaultTemperature, max_tokens |-> 0]}

Options(api_key, interactive, sources, answers, parameters) ==
    [api_key |-> api_key, interactive |-> interactive,
     sources |-> sources, answers |-> answers, parameters |-> parameters]

NoOptions ==
    Options(PyNone, FALSE, <<NoSource, NoSource, NoSource>>,
            <<<<>>, <<>>, <<>>>>,
            [model |-> DefaultModel, temperature |-> DefaultTemperature,
             max_tokens |-> DefaultMaxTokens])

\* The runs: with options and files, or interactive.
CommandOptions ==
    {Options(api_key, FALSE, sources, NoOptions.answers, parameters) :
        api_key \in {PyNone, PyString("test_key")},
        sources \in [1..3 -> Sources],
        parameters \in ParameterOptions}
    \cup
    {Options(api_key, TRUE, NoOptions.sources, answers, parameters) :
        api_key \in {PyNone, PyString("test_key")},
        answers \in [1..3 -> Answers],
        parameters \in ParameterOptions}

TextNames == <<"System prompt", "User prompt", "Sample text">>

Unexpected == "An unexpected error occurred"

\* Lines 105-111 (and 114-120, 123-129): the file if one is named, else the
\* option if it is a non-empty string, else an error and typer.Exit.
GetText(src, name) ==
    IF src.file = "readable" THEN [outcome |-> "ok", text |-> src.held, message |-> ""]
    ELSE IF src.file = "unreadable"
    THEN [outcome |-> "BadParameter", text |-> <<>>, message |-> Unexpected]
    ELSE IF src.option.given /\ src.option.value # <<>>
    THEN [outcome |-> "ok", text |-> src.option.value, message |-> ""]
    ELSE [outcome |-> "Exit", text |-> <<>>, message |-> name]

\* Lines 98-129: the three texts in order; the first failure ends the search.
RECURSIVE GatherFrom(_, _, _)
GatherFrom(opts, k, texts) ==
    IF k > 3 THEN [outcome |-> "ok", texts |-> texts, message |-> ""]
    ELSE LET got == GetText(opts.sources[k], TextNames[k])
         IN  IF got.outcome = "ok" THEN GatherFrom(opts, k + 1, Append(texts, got.text))
             ELSE [outcome |-> got.outcome, texts |-> texts, message |-> got.message]

Gather(opts) ==
    IF opts.interactive
    THEN [outcome |-> "ok", texts |-> opts.answers, message |-> ""]
    ELSE GatherFrom(opts, 1, <<>>)

\* Mutation: the models are filled in without validation.
BuildInput_unvalidated(texts, parameters) ==
    [ok |-> TRUE,
     input |-> [prompt |-> [ok |-> TRUE, system_prompt |-> texts[1],
                            user_prompt |-> texts[2], sample_text |-> texts[3]],
                parameters |-> [ok |-> TRUE, model |-> parameters.model,
                                temperature |-> parameters.temperature,
                                max_tokens |-> parameters.max_tokens]]]

\* Lines 131-147: PromptInput, ModelParameters and ProcessingInput.
BuildInput(texts, parameters) ==
    LET p == PromptInput([system_prompt |-> Given(texts[1]),
                          user_prompt |-> Given(texts[2]),
                          sample_text |-> Given(texts[3])])
        mp == ModelParameters([model |-> Given(parameters.model),
                               temperature |-> Given(parameters.temperature),
                               max_tokens |-> Given(parameters.max_tokens)])
        made == ProcessingInput([prompt |-> Given(p), parameters |-> Given(mp)])
    IN  [ok |-> p.ok /\ mp.ok /\ made.ok,
         input |-> [prompt |-> made.prompt, parameters |-> made.parameters]]

\* Line 92
openai_api_key == Or(options.api_key, settings.openai_api_key)

\* The command ends: print_error for each message, then the exit status.
Exits(code, messages) ==
    /\ pc' = "exited"
    /\ exit_code' = code
    /\ printed' = printed \o messages

\* Lines 88-147.  A typer.Exit raised inside the try is caught by
\* except typer.Exit: pass, and the command returns; any other exception
\* is reported and becomes typer.Exit(code=1).
extract_entities ==
    /\ pc = "cli"
    /\ LET got == Gather(options)
           built == BuildInput(got.texts, options.parameters)
       IN  IF ~Truthy(openai_api_key)
           THEN Exits(0, <<"OpenAI API key is required">>) /\ UNCHANGED input_data
           ELSE IF got.outcome = "Exit"
           THEN Exits(0, <<got.message>>) /\ UNCHANGED input_data
           ELSE IF got.outcome = "BadParameter"
           THEN Exits(1, <<Unexpected>>) /\ UNCHANGED input_data
           ELSE IF ~built.ok
           THEN Exits(1, <<Unexpected>>) /\ UNCHANGED input_data
           ELSE /\ pc' = "cli_service"
                /\ input_data' = built.input
                /\ UNCHANGED <<exit_code, printed>>
    /\ UNCHANGED <<options, callVars, modelVars, serviceVars,
                   metricsVars, calls>>

\* Line 151: service = OpenAIService(api_key=openai_api_key)
extract_service ==
    /\ pc = "cli_service"
    /\ OpenAIService(openai_api_key, PyNone)
    /\ UNCHANGED <<resp_kind, raw_content, resp_usage, json_str, output,
                   requests, create_error, input_data, settings>>
    /\ UNCHANGED <<modelVars, metricsVars, commandVars, calls>>

\* Lines 155-163: display_results after a result, the handler of
\* except Exception after an error.
extract_finish ==
    /\ pc \in {"returned", "raised", "init_failed"}
    /\ IF pc = "returned" THEN Exits(0, <<>>) ELSE Exits(1, <<Unexpected>>)
    /\ UNCHANGED <<options, input_data, callVars, modelVars, serviceVars,
                   metricsVars, calls>>

----------------------------------------------------------------------------
(* Several calls of process_prompt on one service                          *)

\* The inputs of the calls: one prompt with the default parameters, with
\* other parameters, and with parameters=None.
SessionInputs ==
    {i \in {[prompt |-> r.prompt, parameters |-> r.parameters] :
               r \in {x \in {ProcessingInput(kw) : kw \in InputKwargs} : x.ok}} :
        /\ i.prompt.system_prompt = <<"a">>
        /\ i.prompt.user_prompt = <<"a", "\n">>
        /\ i.prompt.sample_text = <<"a">>}

\* The readings of datetime.now() in a call: one second apart, or a little more.
SessionClock == {<<0, Second>>, <<0, Second + 1000>>}

\* What the caller of the call that ends in this step handed in, what the
\* provider answered, and what the caller got back and finds afterwards.
Seen ==
    [input |-> input_data,
     service |-> service,
     kind |-> resp_kind',
     content |-> raw_content',
     usage |-> resp_usage',
     create_error |-> create_error',
     outcome |-> pc',
     result |-> output'.result,
     token_usage |-> output'.metrics.token_usage,
     error |-> error',
     input_after |-> input_data',
     service_after |-> service']

\* One call on the service, after whatever calls came before it; the
\* completion holds an object or holds none.
CallInSession ==
    /\ Invoke({FencedObj, <<Prose>>}, SessionClock)
    /\ calls' = Append(calls, Seen)

\* The caller takes the ProcessingOutput or the exception and comes back
\* with the next ProcessingInput; the service is the same object.
NextInput ==
    /\ pc \in {"returned", "raised"}
    /\ Len(calls) < MaxCalls
    /\ pc' = "ready"
    /\ input_data' \in SessionInputs
    /\ UNCHANGED <<callVars, modelVars, serviceVars, metricsVars, commandVars, calls>>

----------------------------------------------------------------------------
(* Specifications                                                          *)

NotExited == 0 - 1

\* What no specification starts otherwise.
Idle ==
    /\ resp_kind = "none"
    /\ raw_content = <<>>
    /\ resp_usage = EmptyUsage
    /\ json_str = <<>>
    /\ output = NoOutput
    /\ error = "none"
    /\ requests = <<>>
    /\ logged = <<>>
    /\ create_error = "none"
    /\ prompt_kwargs = NoPromptKwargs
    /\ prompt_input = PromptInput(NoPromptKwargs)
    /\ params_kwargs = NoParamsKwargs
    /\ model_parameters = ModelParameters(NoParamsKwargs)
    /\ input_kwargs = NoInputKwargs
    /\ processing_input = ProcessingInput(NoInputKwargs)
    /\ metrics_args = NoMetricsArgs
    /\ response_metrics = NoOutput.metrics
    /\ response_time = 0
    /\ exit_code = NotExited
    /\ printed = <<>>
    /\ calls = <<>>

\* A service has been built and holds a client.
Init ==
    /\ Idle
    /\ pc = "ready"
    /\ input_data = SampleInput
    /\ settings = Settings(PyString(""))
    /\ init_args = NoInitArgs
    /\ service \in BuiltServices
    /\ options = NoOptions

\* One call of process_prompt on a service that has been built.
Next == process_prompt

Spec == Init /\ [][Next]_vars

\* One construction of a request model.
NextModels ==
    ConstructPromptInput \/ ConstructModelParameters \/ ConstructProcessingInput

SpecModels == Init /\ [][NextModels]_vars

\* One call of the metrics builder.
NextMetrics == CallCalculateResponseTime \/ CallCreateResponseMetrics

SpecMetrics == Init /\ [][NextMetrics]_vars

\* The ProcessingInput values construction returns.
ServiceInputs ==
    {[prompt |-> r.prompt, parameters |-> r.parameters] :
        r \in {x \in {ProcessingInput(kw) : kw \in InputKwargs} : x.ok}}

\* Pairs of readings of datetime.now(): a wall clock, which a clock step
\* can set back between the two.
ServiceClock == {<<0, Second>>, <<0, Second + 1000>>, <<Second, 0>>}

\* No service yet; the settings and the input are the caller's.
InitService ==
    /\ Idle
    /\ pc = "new"
    /\ input_data \in ServiceInputs
    /\ settings \in {Settings(key) : key \in SettingsKeys}
    /\ init_args = NoInitArgs
    /\ service = NoService
    /\ options = NoOptions

CallService == Invoke(ServiceTexts, ServiceClock) /\ UNCHANGED calls

\* A service is built, then process_prompt is called on it once.
NextService == ConstructService \/ CallService

SpecService == InitService /\ [][NextService]_vars

\* The command has been started and nothing has been done yet.
InitCommand ==
    /\ Idle
    /\ pc = "cli"
    /\ input_data = SampleInput
    /\ settings \in {Settings(PyString("")), Settings(PyString("settings_key"))}
    /\ init_args = NoInitArgs
    /\ service = NoService
    /\ options \in CommandOptions

\* One run of the extract command.
NextCommand == extract_entities \/ extract_service \/ CallService \/ extract_finish

SpecCommand == InitCommand /\ [][NextCommand]_vars

\* A built service and the first input handed to it.
InitSession ==
    /\ Idle
    /\ pc = "ready"
    /\ input_data \in SessionInputs
    /\ settings = Settings(PyString(""))
    /\ init_args = NoInitArgs
    /\ service \in BuiltServices
    /\ options = NoOptions

\* process_prompt is called on the service up to MaxCalls times.
NextSession == CallInSession \/ NextInput

SpecSession == InitSession /\ [][NextSession]_vars

----------------------------------------------------------------------------
(* Vocabulary of the properties                                            *)

TextDone == resp_kind = "text" /\ pc \in {"returned", "raised"}

\* The values the two sample objects denote.
ListValue ==
    PyDict(<<Pair("device", PyString("CPAP")),
             Pair("add_ons", PyList(<<PyString("humidifier")>>))>>)
DictValue ==
    PyDict(<<Pair("usage", PyDict(<<Pair("device", PyString("CPAP"))>>))>>)

SampleObjects == {ObjWithList, ObjWithDict}
ValueOf(obj) == IF obj = ObjWithList THEN ListValue ELSE DictValue

AllIn(s, lo, hi, set) == \A k \in lo..hi : s[k] \in set
Positions(s, lex) == {k \in 1..Len(s) : s[k] = lex}
Count(s, lex) == Cardinality(Positions(s, lex))

\* obj occupies s[i .. i + Len(obj) - 1]
OccursAt(s, obj, i) ==
    /\ i >= 1 /\ i + Len(obj) - 1 <= Len(s)
    /\ SubSeq(s, i, i + Len(obj) - 1) = obj

\* A fence at p, an optional tag and whitespace end just before position b.
FenceOpensBefore(s, b, p) ==
    /\ p >= 1 /\ p < b /\ s[p] = Fence
    /\ \/ AllIn(s, p + 1, b - 1, {Space})
       \/ p + 1 < b /\ s[p + 1] = Tag /\ AllIn(s, p + 2, b - 1, {Space})

\* Whitespace and a fence at q start just after position e.
FenceClosesAfter(s, e, q) ==
    /\ q > e /\ q <= Len(s) /\ s[q] = Fence
    /\ AllIn(s, e + 1, q - 1, {Space})

IsBraceSpan(s, b, e) ==
    /\ b >= 1 /\ b < e /\ e <= Len(s)
    /\ s[b] = "{" /\ s[e] = "}"

\* s[b .. e] is a brace span standing inside a fence.
IsFencedSpan(s, b, e) ==
    /\ IsBraceSpan(s, b, e)
    /\ \E p \in Positions(s, Fence) : FenceOpensBefore(s, b, p)
    /\ \E q \in Positions(s, Fence) : FenceClosesAfter(s, e, q)

HasFencedSpan(s) ==
    \E b \in Positions(s, "{"), e \in Positions(s, "}") : IsFencedSpan(s, b, e)
HasBraceSpan(s) ==
    \E b \in Positions(s, "{"), e \in Positions(s, "}") : IsBraceSpan(s, b, e)

\* obj stands at i inside a fence, with only prose before and after the fence.
FencedInProse(s, obj, i) ==
    /\ OccursAt(s, obj, i)
    /\ \E p \in Positions(s, Fence) :
          /\ FenceOpensBefore(s, i, p)
          /\ AllIn(s, 1, p - 1, {Prose, Space})
    /\ \E q \in Positions(s, Fence) :
          /\ FenceClosesAfter(s, i + Len(obj) - 1, q)
          /\ AllIn(s, q + 1, Len(s), {Prose, Space})

\* obj stands at i with only prose around it.
BareInProse(s, obj, i) ==
    /\ OccursAt(s, obj, i)
    /\ AllIn(s, 1, i - 1, {Prose, Space})
    /\ AllIn(s, i + Len(obj), Len(s), {Prose, Space})

\* obj has a '}' before its closing brace (a nested object).
HasInnerBrace(obj) == \E k \in 1..(Len(obj) - 1) : obj[k] = "}"

----------------------------------------------------------------------------
(* Properties of process_prompt, checked under Spec                        *)

\* C1: when the provider answers with a text completion and reports the
\* three usage counters, the returned metrics.token_usage equals them.
C1_TokenUsageFromProvider ==
    (pc = "returned" /\ resp_kind = "text" /\ resp_usage.has = CounterNames)
        => output.metrics.token_usage = resp_usage.n

\* C2: when the candidate parses to a JSON value that is not an object,
\* process_prompt does not raise and returns a result with zero fields.
C2_NonObjectDegrades ==
    (TextDone /\ json_loads(json_str).ok /\ json_loads(json_str).val.t # "dict")
        => (pc = "returned" /\ output.result = PyDict(<<>>))

\* C3: when the candidate is not valid JSON, process_prompt raises nothing
\* and returns an output whose result has zero fields, with its metrics.
C3_DecodeFailureDegrades ==
    (TextDone /\ ~json_loads(json_str).ok)
        => /\ pc = "returned"
           /\ error = "none"
           /\ output.result = PyDict(<<>>)
           /\ output.metrics.model = input_data.parameters.model

C3_Witness ==
    /\ pc = "returned"
    /\ raw_content = <<Prose, Space, Prose>>
    /\ json_str = raw_content
    /\ output.result = PyDict(<<>>)

\* C4 as stated: whenever the completion contains a JSON object with nested
\* values, fenced or unfenced, amid prose, the result is that object.
C4_ContainedObjectPreserved ==
    TextDone =>
        \A obj \in SampleObjects : \A i \in Positions(raw_content, "{") :
            (FencedInProse(raw_content, obj, i) \/ BareInProse(raw_content, obj, i))
                => (pc = "returned" /\ output.result = ValueOf(obj))

\* C4 amended: the result is the contained object, nested values unchanged,
\* when the object is fenced, or is unfenced and has no '}' before its
\* closing brace; an unfenced object with an inner '}' gives an empty result.
C4_DecodedObjectPreserved ==
    /\ TextDone =>
        \A obj \in SampleObjects : \A i \in Positions(raw_content, "{") :
            ( \/ FencedInProse(raw_content, obj, i)
              \/ BareInProse(raw_content, obj, i) /\ ~HasInnerBrace(obj) )
            => (pc = "returned" /\ output.result = ValueOf(obj)
                                /\ output.raw_response = ValueOf(obj))
    /\ TextDone =>
        \A obj \in SampleObjects : \A i \in Positions(raw_content, "{") :
            (BareInProse(raw_content, obj, i) /\ HasInnerBrace(obj))
            => (pc = "returned" /\ output.result = PyDict(<<>>))

C4_Witness ==
    /\ pc = "returned"
    /\ raw_content = <<Fence>> \o ObjWithDict \o <<Fence>>
    /\ output.result = DictValue

C6_FirstBraceSpan ==
    (TextDone /\ Count(raw_content, Fence) < 2 /\ HasBraceSpan(raw_content))
        => \E b \in Positions(raw_content, "{"), e \in Positions(raw_content, "}") :
              /\ IsBraceSpan(raw_content, b, e)
              /\ \A k \in 1..(b - 1) : raw_content[k] # "{"
              /\ \A k \in (b + 1)..(e - 1) : raw_content[k] # "}"
              /\ json_str = SubSeq(raw_content, b, e)

C6_Witness ==
    /\ pc = "returned"
    /\ raw_content = <<Prose>> \o ObjWithList \o BadSpan
    /\ json_str = ObjWithList
    /\ output.result = ListValue

\* C7: a fenced brace span is chosen over any unfenced one, an unfenced one
\* over the raw text, the raw text only when there is no brace span; a
\* candidate that fails to decode is not replaced by a later stage's.
C7_CandidateOrder ==
    TextDone =>
        LET opens == Positions(raw_content, "{")
            closers == Positions(raw_content, "}")
            fenced == \E b \in opens, e \in closers : IsFencedSpan(raw_content, b, e)
            braced == \E b \in opens, e \in closers : IsBraceSpan(raw_content, b, e)
        IN  /\ fenced =>
                  \E b \in opens, e \in closers :
                     /\ IsFencedSpan(raw_content, b, e)
                     /\ json_str = SubSeq(raw_content, b, e)
            /\ (~fenced /\ braced) =>
                  \E b \in opens, e \in closers :
                     /\ IsBraceSpan(raw_content, b, e)
                     /\ json_str = SubSeq(raw_content, b, e)
            /\ ~braced => json_str = raw_content
            /\ ~json_loads(json_str).ok =>
                  (pc = "returned" /\ output.result = PyDict(<<>>))

C7_Witness ==
    /\ pc = "returned"
    /\ raw_content = ObjWithList \o FencedBad
    /\ json_str = BadSpan
    /\ output.result = PyDict(<<>>)

----------------------------------------------------------------------------
(* Properties of the request models, checked under SpecModels              *)

PromptFields == {"system_prompt", "user_prompt", "sample_text"}

\* v has no character other than whitespace (the empty string included).
Blank(v) == \A k \in 1..Len(v) : v[k] \in Whitespace

\* C8: every PromptInput that construction returns has three fields that
\* each hold a non-whitespace character, whatever the caller gave or omitted.
C8_PromptInputNeverBlank ==
    (pc = "prompt_input" /\ prompt_input.ok)
        => \A f \in PromptFields : ~Blank(prompt_input[f])

\* C9: a field given as an empty or whitespace-only string fails validation;
\* with all three given non-blank, construction succeeds and each field
\* equals the given string.
C9_BlankRejectedElseExact ==
    pc = "prompt_input" =>
        /\ (\E f \in PromptFields :
               prompt_kwargs[f].given /\ Blank(prompt_kwargs[f].value))
              => ~prompt_input.ok
        /\ (\A f \in PromptFields :
               prompt_kwargs[f].given /\ ~Blank(prompt_kwargs[f].value))
              => /\ prompt_input.ok
                 /\ \A f \in PromptFields : prompt_input[f] = prompt_kwargs[f].value

C9_Witness ==
    /\ pc = "prompt_input"
    /\ prompt_kwargs.system_prompt = Given(<<" ", "a">>)
    /\ prompt_kwargs.user_prompt = Given(<<"a", "\n">>)
    /\ prompt_kwargs.sample_text = Given(<<"a">>)
    /\ prompt_input.ok
    /\ prompt_input.system_prompt = <<" ", "a">>
    /\ prompt_input.user_prompt = <<"a", "\n">>

\* C10: ModelParameters is accepted exactly when 0 <= temperature <= 1 and
\* max_tokens >= 1 (an omitted field is within range); an accepted value
\* holds the given fields and gpt-4o, 0.0 and 1000 for the omitted ones.
C10_ModelParametersBounds ==
    pc = "model_parameters" =>
        LET kw == params_kwargs
            tempOk == ~kw.temperature.given
                        \/ (0 <= kw.temperature.value /\ kw.temperature.value <= 100)
            tokensOk == ~kw.max_tokens.given \/ kw.max_tokens.value >= 1
        IN  /\ model_parameters.ok <=> (tempOk /\ tokensOk)
            /\ model_parameters.ok =>
                  /\ model_parameters.model =
                        IF kw.model.given THEN kw.model.value ELSE "gpt-4o"
                  /\ model_parameters.temperature =
                        IF kw.temperature.given THEN kw.temperature.value ELSE 0
                  /\ model_parameters.max_tokens =
                        IF kw.max_tokens.given THEN kw.max_tokens.value ELSE 1000

C10_Witness ==
    /\ pc = "model_parameters"
    /\ params_kwargs.model = Omitted("")
    /\ params_kwargs.temperature = Given(100)
    /\ params_kwargs.max_tokens = Given(1)
    /\ model_parameters =
          [ok |-> TRUE, model |-> "gpt-4o", temperature |-> 100, max_tokens |-> 1]

----------------------------------------------------------------------------
(* Properties of the service, checked under SpecService                    *)

\* Neither the api_key argument nor the settings hold a key.
NoCredential == ~Truthy(init_args.api_key) /\ ~Truthy(settings.openai_api_key)

Constructed == pc # "new"

InitFailed ==
    /\ pc = "init_failed"
    /\ error = "ValueError: OpenAI API key is required"
    /\ service.client = PyNone
    /\ requests = <<>>

\* C11 as stated: with no credential configured, creating the service fails
\* with 'OpenAI API key is required', no client is built and no request is
\* ever issued.
C11_NoCredentialFails == (Constructed /\ NoCredential) => InitFailed

\* C11, amended: with no credential configured and no mock client handed
\* in, creating the service fails with 'OpenAI API key is required', no
\* client is built and no request is issued; with a mock client handed in
\* the service is created around the mock and no OpenAI client is built.
C11_NoCredentialNoClient ==
    (Constructed /\ NoCredential) =>
        /\ init_args.mock_client = PyNone => InitFailed
        /\ init_args.mock_client # PyNone => service.client = MagicMock
        /\ service.client.t # "OpenAI"

C11_Witness ==
    /\ init_args = [api_key |-> PyString(""), mock_client |-> PyNone]
    /\ settings.openai_api_key = PyNone
    /\ InitFailed

\* C19: the service's key is the api_key argument when that holds a key
\* (a non-empty string) and the settings key otherwise, and a client that
\* OpenAI(...) built was built with the service's key.
C19_KeySelection ==
    pc \in {"ready", "returned", "raised"} =>
        /\ Truthy(init_args.api_key) => service.api_key = init_args.api_key
        /\ ~Truthy(init_args.api_key) => service.api_key = settings.openai_api_key
        /\ service.client.t = "OpenAI" =>
              /\ Truthy(service.api_key)
              /\ service.client.s = service.api_key.s

C19_Witness ==
    /\ pc = "ready"
    /\ init_args = [api_key |-> PyString("test_key"), mock_client |-> PyNone]
    /\ settings.openai_api_key = PyString("settings_key")
    /\ service = [api_key |-> PyString("test_key"),
                  client |-> OpenAI(PyString("test_key"))]

\* C12: when chat.completions.create fails (or the mock client holds a
\* side_effect), process_prompt logs the error and raises that same error;
\* it returns no ProcessingOutput and no empty result.
C12_ProviderErrorPropagates ==
    create_error # "none" =>
        /\ pc = "raised"
        /\ error = create_error
        /\ output = NoOutput
        /\ logged = <<[message |-> "Error processing prompt", exc |-> create_error]>>

C12_Witness ==
    /\ pc = "raised"
    /\ resp_kind = "error"
    /\ create_error = "APIConnectionError"
    /\ error = "APIConnectionError"
    /\ output = NoOutput

\* C13: one call of process_prompt sends at most one request; exactly one
\* when it returns a ProcessingOutput; and exactly one, never a second, when
\* the request fails.
C13_AtMostOneRequest ==
    /\ Len(requests) <= 1
    /\ pc = "returned" => Len(requests) = 1
    /\ resp_kind = "error" => (pc = "raised" /\ Len(requests) = 1)

C13_Witness ==
    /\ pc = "raised"
    /\ resp_kind = "error"
    /\ error = "APIError"
    /\ Len(requests) = 1

\* C14: the request holds two messages, the system message with the system
\* prompt as it is, then the user message with the user prompt, two
\* newlines, the label 'Input Text: ' and the sample text; model,
\* temperature and max_tokens are those of the input's parameters.
C14_RequestShape ==
    \A k \in 1..Len(requests) :
        LET r == requests[k]
            p == input_data.prompt
            c == r.messages[2].content
            n == Len(p.user_prompt)
        IN  /\ Len(r.messages) = 2
            /\ r.messages[1].role = "system"
            /\ r.messages[1].content = p.system_prompt
            /\ r.messages[2].role = "user"
            /\ Len(c) = n + 3 + Len(p.sample_text)
            /\ SubSeq(c, 1, n) = p.user_prompt
            /\ c[n + 1] = "\n" /\ c[n + 2] = "\n" /\ c[n + 3] = "Input Text: "
            /\ SubSeq(c, n + 4, Len(c)) = p.sample_text
            /\ r.model = input_data.parameters.model
            /\ r.temperature = input_data.parameters.temperature
            /\ r.max_tokens = input_data.parameters.max_tokens

C14_Witness ==
    /\ pc = "returned"
    /\ requests =
          << [model |-> "gpt-3.5-turbo",
              messages |->
                 << [role |-> "system", content |-> <<"a">>],
                    [role |-> "user",
                     content |-> <<"a", "\n", "\n", "\n", "Input Text: ", " ", "a">>] >>,
              temperature |-> 100,
              max_tokens |-> 1] >>

----------------------------------------------------------------------------
(* Properties of the metrics builder, checked under SpecMetrics            *)

\* C15: for end >= start, calculate_response_time returns the whole
\* milliseconds of the elapsed time, rounded down.
C15_FloorOfElapsed ==
    (pc = "response_time" /\ metrics_args.end_time >= metrics_args.start_time)
        => response_time = (metrics_args.end_time - metrics_args.start_time) \div 1000

\* C16: in the TokenUsage create_response_metrics returns, a counter the
\* usage mapping holds keeps its value and a counter it lacks is 0.
C16_MissingCountersZero ==
    pc = "metrics" =>
        \A k \in {"prompt_tokens", "completion_tokens", "total_tokens"} :
            /\ k \in metrics_args.usage.has
                  => response_metrics.token_usage[k] = metrics_args.usage.n[k]
            /\ k \notin metrics_args.usage.has
                  => response_metrics.token_usage[k] = 0

C16_Witness ==
    /\ pc = "metrics"
    /\ metrics_args.usage.has = {"prompt_tokens", "total_tokens"}
    /\ response_metrics.token_usage =
          [prompt_tokens |-> 100, completion_tokens |-> 0, total_tokens |-> 150]

\* C17: a ResponseMetrics that create_response_metrics or process_prompt
\* produced has end_time >= start_time and response_time_ms >= 0.
C17_NonNegativeDuration ==
    /\ pc = "metrics" =>
          /\ response_metrics.end_time >= response_metrics.start_time
          /\ response_metrics.response_time_ms >= 0
    /\ pc = "returned" =>
          /\ output.metrics.end_time >= output.metrics.start_time
          /\ output.metrics.response_time_ms >= 0

----------------------------------------------------------------------------
(* Properties of ProcessingInput, checked under SpecModels                 *)

\* C18: a ProcessingInput that construction returned holds a PromptInput
\* and a ModelParameters, never None, and holds the default parameters
\* (gpt-4o, 0.0, 1000) when the caller gave none.
C18_ParametersNeverAbsent ==
    (pc = "processing_input" /\ processing_input.ok) =>
        /\ "t" \notin DOMAIN processing_input.prompt
        /\ "t" \notin DOMAIN processing_input.parameters
        /\ ~input_kwargs.parameters.given =>
              processing_input.parameters =
                 [ok |-> TRUE, model |-> "gpt-4o", temperature |-> 0,
                  max_tokens |-> 1000]

----------------------------------------------------------------------------
(* Properties of the extract command, checked under SpecCommand            *)

KeyFound ==
    \/ options.api_key.t = "str" /\ options.api_key.s # ""
    \/ settings.openai_api_key.t = "str" /\ settings.openai_api_key.s # ""

\* The k-th text was obtained: typed, read from a file, or given as a
\* non-empty option with no file named.
Obtained(k) ==
    \/ options.interactive
    \/ options.sources[k].file = "readable"
    \/ /\ options.sources[k].file = "none"
       /\ options.sources[k].option.given
       /\ options.sources[k].option.value # <<>>

ObtainedText(k) ==
    IF options.interactive THEN options.answers[k]
    ELSE IF options.sources[k].file = "readable" THEN options.sources[k].held
    ELSE options.sources[k].option.value

ChecksPass ==
    /\ KeyFound
    /\ \A k \in 1..3 : Obtained(k)
    /\ \A k \in 1..3 : ~Blank(ObtainedText(k))
    /\ 0 <= options.parameters.temperature /\ options.parameters.temperature <= 100
    /\ options.parameters.max_tokens >= 1

\* C20: a run of extract issues a request only when a non-empty key was
\* found, the three texts were obtained and PromptInput and ModelParameters
\* accepted them; a run in which one of these fails ends with no request.
C20_RequestOnlyAfterChecks ==
    /\ requests # <<>> => ChecksPass
    /\ pc \in {"cli_service", "ready", "returned", "raised"} => ChecksPass
    /\ (~ChecksPass /\ pc # "cli") => (pc = "exited" /\ requests = <<>>)

C20_Witness ==
    /\ pc = "exited"
    /\ exit_code = 0
    /\ Len(requests) = 1
    /\ ~options.interactive
    /\ options.api_key = PyNone
    /\ settings.openai_api_key = PyString("settings_key")
    /\ options.sources[1].file = "readable"
    /\ options.sources[3].file = "none"

\* The run stopped at one of the four checks for a missing input: no key
\* was found, or the search for the three texts ended at a text with
\* neither a file nor a non-empty option.
StoppedForMissing ==
    /\ pc = "exited"
    /\ \/ ~KeyFound
       \/ Gather(options).outcome = "Exit"

\* C22: a run of extract that stops because the key, the system prompt, the
\* user prompt or the sample text is missing has printed the error and ends
\* with exit status 1, the status of every other failed run.
C22_MissingInputExitsOne ==
    /\ StoppedForMissing => (printed # <<>> /\ exit_code = 1)
    /\ (pc = "exited" /\ printed # <<>>) => exit_code = 1

----------------------------------------------------------------------------
(* Properties of a sequence of calls, checked under SpecSession            *)

\* Two calls were handed the same input and the provider answered both
\* alike: the same kind of response, text, usage and error.
SameCall(a, b) ==
    /\ a.input = b.input
    /\ a.kind = b.kind
    /\ a.content = b.content
    /\ a.usage = b.usage
    /\ a.create_error = b.create_error

\* The callers of two calls got the same back: a result and token counters,
\* or the same exception.
SameOutcome(a, b) ==
    /\ a.outcome = b.outcome
    /\ a.result = b.result
    /\ a.token_usage = b.token_usage
    /\ a.error = b.error

\* C21: process_prompt keeps nothing between calls: two calls on one
\* service with the same input and the same answer of the provider give the
\* same result, token counters and exception, whatever calls came before
\* each of them, and every call leaves its input and the service's
\* credential and client as they were.
C21_NoStateBetweenCalls ==
    /\ \A i, j \in 1..Len(calls) :
          SameCall(calls[i], calls[j]) => SameOutcome(calls[i], calls[j])
    /\ \A i \in 1..Len(calls) :
          /\ calls[i].input_after = calls[i].input
          /\ calls[i].service_after = calls[i].service
          /\ calls[i].service = calls[1].service

C21_Witness ==
    /\ Len(calls) >= 3
    /\ SameCall(calls[1], calls[3])
    /\ calls[1].kind = "text"
    /\ calls[1].outcome = "returned"
    /\ calls[1].result # EntityOutput(PyDict(<<>>))
    /\ calls[2].outcome = "raised"
    /\ calls[2].input # calls[1].input

----------------------------------------------------------------------------
(* Properties of the output of a call, checked under SpecService           *)

\* C23: in every output process_prompt returns, metrics.model is the model
\* of the input's parameters, and it is the model of the request that was
\* sent, whatever text and usage the provider answered with.
C23_MetricsModelIsRequested ==
    pc = "returned" =>
        /\ output.metrics.model = input_data.parameters.model
        /\ \A k \in 1..Len(requests) : requests[k].model = output.metrics.model

C23_Witness ==
    /\ pc = "returned"
    /\ resp_kind = "text"
    /\ resp_usage # EmptyUsage
    /\ Len(requests) = 1
    /\ output.metrics.model = "gpt-3.5-turbo"

=============================================================================
